---- MODULE Spec2Model ----
(***************************************************************************)
(* Cycle detection by matrix powers: package matrix (NewMatrix,            *)
(* Exponentiate, Multiply with its computeProducts goroutine, Trace) and   *)
(* isGraphCyclic of package main.                                          *)
(*                                                                         *)
(* A Go [][]int is a reference to shared storage, so the entries of every  *)
(* Matrix live in `heap` and a Matrix value holds Rows, Columns and the    *)
(* reference Entries.  Indices carried by Elements and loop counters are   *)
(* Go's (from 0); the grids of the heap are TLA+ sequences (from 1).       *)
(* Go's int is 64 bits wide; the operands used here keep every sum and     *)
(* product far below 2^63, so no arithmetic wraps.                         *)
(***************************************************************************)
EXTENDS Integers, Sequences, FiniteSets, TLC

\* Largest number of rows (and of columns of the right operand) of an operand.
MaxDim == 2
\* Number of operand fillings besides the identity filling.
MaxSeed == 1
\* Largest power handed to Exponentiate.
MaxPower == 3
\* Largest number of nodes of an adjacency matrix handed to isGraphCyclic.
MaxNodes == 3

VARIABLES
    op,                  \* the call the client program makes
    pc,                  \* position of the calling goroutine
    err,                 \* the panic that ended the program, or "none"
    heap,                \* entry storage: reference -> grid
    args,                \* the grids the client passed in, as they were at the call
    self,                \* Multiply: receiver
    secondMatrix,        \* Multiply: argument
    computedMatrix,      \* Multiply: the result being assembled
    size,                \* Multiply: channel capacity
    firstInputChannel,
    secondInputChannel,
    finalOutputChannel,
    enc,                 \* Multiply: loop counters i, j, k of the encoder loop
    wpc,                 \* position of the computeProducts goroutine
    x, y,                \* computeProducts: received elements
    firstChannelIsOpen,
    secondChannelIsOpen,
    initialMatrix,       \* Exponentiate: receiver
    power,               \* Exponentiate: argument
    currentMatrix,       \* Exponentiate: running result
    i,                   \* Exponentiate: loop counter
    result,              \* the Matrix returned to the client
    verdict,             \* isGraphCyclic: returned boolean
    sent,                \* pairs the encoder loop has sent in this Multiply call
    mulCalls,            \* Multiply calls made so far
    emitted,             \* elements the worker has sent on the output channel in this call
    argRows, argColumns, \* NewMatrix: arguments rows and columns
    argEntries,          \* NewMatrix: the variadic argument entries, <<>> or <<reference>>
    newErr,              \* NewMatrix: the error returned, or "none"
    traceValue,          \* Trace: the sum returned
    warned               \* main: the square-matrix warning was printed

vars == <<op, pc, err, heap, args, self, secondMatrix, computedMatrix, size,
          firstInputChannel, secondInputChannel, finalOutputChannel, enc,
          wpc, x, y, firstChannelIsOpen, secondChannelIsOpen,
          initialMatrix, power, currentMatrix, i, result, verdict,
          sent, mulCalls, emitted, argRows, argColumns, argEntries, newErr,
          traceValue, warned>>

mulVars == <<self, secondMatrix, computedMatrix, size, firstInputChannel,
             secondInputChannel, finalOutputChannel, enc, sent, emitted>>
callVars == <<argRows, argColumns, argEntries, newErr, traceValue, warned>>
workerVars == <<wpc, x, y, firstChannelIsOpen, secondChannelIsOpen>>
expVars == <<initialMatrix, power, currentMatrix, i>>

(***************************************************************************)
(* Types                                                                   *)
(***************************************************************************)
Element(r, c, v) == [RowIndex |-> r, ColIndex |-> c, Value |-> v]

ZeroElement == Element(0, 0, 0)

Matrix(rows, columns, ref) == [Rows |-> rows, Columns |-> columns, Entries |-> ref]

\* The zero Matrix{}: no storage.
NilMatrix == Matrix(0, 0, 0)

NilChannel == [made |-> FALSE, cap |-> 0, buf |-> <<>>, closed |-> FALSE]

MakeChan(capacity) == [made |-> TRUE, cap |-> capacity, buf |-> <<>>, closed |-> FALSE]

\* The grid a Matrix refers to.
Grid(m) == heap[m.Entries]

ZeroGrid(rows, columns) == [r \in 1..rows |-> [c \in 1..columns |-> 0]]

(***************************************************************************)
(* Operands the client passes in                                           *)
(***************************************************************************)
\* Filling 0 is the identity pattern; the others mix negative, zero and
\* positive values.
OperandEntry(seed, r, c) ==
    IF seed = 0 THEN (IF r = c THEN 1 ELSE 0)
    ELSE ((seed + 2 * r + 3 * c + seed * r * c) % 4) - 1

OperandGrid(rows, columns, seed) ==
    [r \in 1..rows |-> [c \in 1..columns |-> OperandEntry(seed, r - 1, c - 1)]]

\* Entries handed to NewMatrix: r rows of c values, the last row of `last`
\* values (r = 0: no row at all; last # c: a ragged grid).
EntryGrid(r, c, last, seed) ==
    [row \in 1..r |->
        [col \in 1..(IF row = r THEN last ELSE c) |-> OperandEntry(seed, row - 1, col - 1)]]

\* A graph on n nodes is a union of these edge patterns (nodes from 0).
EdgePatterns == {"path", "back", "rev", "loop", "skip"}

GraphKinds == SUBSET EdgePatterns

PatternEdge(pattern, n, a, b) ==
    CASE pattern = "path" -> b = a + 1
      [] pattern = "back" -> a = n - 1 /\ b = 0
      [] pattern = "rev"  -> a = 1 /\ b = 0
      [] pattern = "loop" -> a = n - 1 /\ b = n - 1
      [] pattern = "skip" -> b = a + 2

HasEdge(kind, n, a, b) == \E pattern \in kind : PatternEdge(pattern, n, a, b)

AdjacencyGrid(n, kind) ==
    [r \in 1..n |-> [c \in 1..n |-> IF HasEdge(kind, n, r - 1, c - 1) THEN 1 ELSE 0]]

\* The table main loads from the file: r records of c fields (the csv reader
\* gives every record the field count of the first), 0/1 values.
TablePatterns == {"path", "back"}

TableGrid(r, c, kind) ==
    [a \in 1..r |-> [b \in 1..c |-> IF HasEdge(kind, r, a - 1, b - 1) THEN 1 ELSE 0]]

(***************************************************************************)
(* main.go: pure parts                                                     *)
(***************************************************************************)
\* main, line 103: matrixRows, matrixColumns.
MainDims(table) == [rows |-> Len(table), columns |-> Len(table)]

\* main, line 104: the condition of the warning.
MainWarns(dims) == dims.rows # dims.columns

(***************************************************************************)
(* matrix.go: pure parts                                                   *)
(***************************************************************************)
\* NewMatrix, line 25.
NewMatrixRejects(rows, columns) == rows <= 0 \/ columns <= 0

\* NewMatrix, line 37: the entries given do not match rows and columns.
NewMatrixMismatch(grid, r, c) == Len(grid) # r \/ Len(grid[1]) # c

\* Mutant of Compatible: the conventional inner-dimension check.
CompatibleInner(a, b) == a.Columns = b.Rows

\* Multiply, line 71: the operands pass the compatibility check.
Compatible(a, b) == a.Rows = b.Columns

\* Mutant of ChanSize: one slot per row.
ChanSizeRows(m) == m.Rows

\* Multiply, line 87.
ChanSize(m) == m.Rows * m.Rows * m.Rows

\* Mutant of Product: the row tag is taken from the right element.
ProductRowOfSecond(first, second) ==
    Element(second.RowIndex, second.ColIndex, first.Value * second.Value)

\* Mutant of Product: the values are added.
ProductAdds(first, second) ==
    Element(first.RowIndex, second.ColIndex, first.Value + second.Value)

\* Mutant of Product: the product keeps the tag of the left element.
ProductTaggedByFirst(first, second) ==
    Element(first.RowIndex, first.ColIndex, first.Value * second.Value)

\* computeProducts, line 131.
Product(first, second) ==
    Element(first.RowIndex, second.ColIndex, first.Value * second.Value)

\* Multiply, line 101: Element{i, j, firstValue}.
FirstElement(grid, at) == Element(at.i, at.j, grid[at.i + 1][at.j + 1])

\* Mutant of SecondElement: row and column tag swapped.
SecondElementSwapped(grid, at) == Element(at.k, at.j, grid[at.j + 1][at.k + 1])

\* Multiply, line 102: Element{j, k, secondValue}.
SecondElement(grid, at) == Element(at.j, at.k, grid[at.j + 1][at.k + 1])

\* Multiply, line 113: computedMatrix.Entries[RowIndex][ColIndex] += Value.
InRange(grid, e) ==
    /\ e.RowIndex + 1 \in 1..Len(grid)
    /\ e.ColIndex + 1 \in 1..Len(grid[e.RowIndex + 1])

Accumulate(grid, e) ==
    [grid EXCEPT ![e.RowIndex + 1][e.ColIndex + 1] = @ + e.Value]

\* Mutant of LoopCond: one round too many.
LoopCondInclusive(n, p) == n <= p

\* Exponentiate, line 54: the loop condition.
LoopCond(n, p) == n < p

\* Multiply, lines 98-100: the first loop position at or after (a, b, c) in
\* the order of the three nested range loops over first (self.Entries) and
\* second (secondMatrix.Entries): the next pair to send, the end of the
\* loops, or the index j that secondMatrix.Entries does not have.
RECURSIVE Scan(_, _, _, _, _)
Scan(first, second, a, b, c) ==
    IF a >= Len(first) THEN [at |-> "end", i |-> a, j |-> 0, k |-> 0]
    ELSE IF b >= Len(first[a + 1]) THEN Scan(first, second, a + 1, 0, 0)
    ELSE IF b >= Len(second) THEN [at |-> "panic", i |-> a, j |-> b, k |-> 0]
    ELSE IF c >= Len(second[b + 1]) THEN Scan(first, second, a, b + 1, 0)
    ELSE [at |-> "send", i |-> a, j |-> b, k |-> c]

\* Trace, lines 143-157.  TraceFrom adds, row by row, the value whose column
\* index equals the row index, where the row has one.
RECURSIVE TraceFrom(_, _)
TraceFrom(grid, r) ==
    IF r > Len(grid) THEN 0
    ELSE (IF r <= Len(grid[r]) THEN grid[r][r] ELSE 0) + TraceFrom(grid, r + 1)

\* Mutant of Trace: a trace defined for square matrices only.
TraceOfSquare(grid) ==
    IF Len(grid) = Len(grid[1]) THEN TraceFrom(grid, 1) ELSE 0

Trace(grid) == TraceFrom(grid, 1)

(***************************************************************************)
(* Initial states: the client is about to make one call                    *)
(***************************************************************************)
Idle ==
    /\ err = "none"
    /\ computedMatrix = NilMatrix
    /\ size = 0
    /\ firstInputChannel = NilChannel
    /\ secondInputChannel = NilChannel
    /\ finalOutputChannel = NilChannel
    /\ enc = [i |-> 0, j |-> 0, k |-> 0]
    /\ wpc = "none"
    /\ x = ZeroElement /\ y = ZeroElement
    /\ firstChannelIsOpen = FALSE /\ secondChannelIsOpen = FALSE
    /\ currentMatrix = NilMatrix
    /\ i = 0
    /\ result = NilMatrix /\ verdict = FALSE
    /\ sent = 0 /\ mulCalls = 0
    /\ emitted = <<>>
    /\ newErr = "none"
    /\ traceValue = 0
    /\ warned = FALSE
    /\ args = heap

\* left.Multiply(right)
InitMultiply ==
    \E r1 \in 1..MaxDim, c1 \in 1..MaxDim + 2, r2 \in 1..MaxDim + 2, c2 \in 1..MaxDim,
       s1 \in 1..MaxSeed, s2 \in 0..MaxSeed :
        /\ op = "Multiply"
        /\ pc = "Multiply"
        /\ heap = <<OperandGrid(r1, c1, s1), OperandGrid(r2, c2, s2)>>
        /\ self = Matrix(r1, c1, 1)
        /\ secondMatrix = Matrix(r2, c2, 2)
        /\ initialMatrix = NilMatrix
        /\ power = 0
        /\ argRows = 0 /\ argColumns = 0 /\ argEntries = <<>>
        /\ Idle

\* a.Exponentiate(p)
InitExponentiate ==
    \E r1 \in 1..MaxDim, c1 \in 1..MaxDim, s1 \in 0..MaxSeed, p \in -1..MaxPower :
        /\ op = "Exponentiate"
        /\ pc = "Exponentiate"
        /\ heap = <<OperandGrid(r1, c1, s1)>>
        /\ self = NilMatrix
        /\ secondMatrix = NilMatrix
        /\ initialMatrix = Matrix(r1, c1, 1)
        /\ power = p
        /\ argRows = 0 /\ argColumns = 0 /\ argEntries = <<>>
        /\ Idle

\* isGraphCyclic(a)
InitIsGraphCyclic ==
    \E n \in 1..MaxNodes, kind \in GraphKinds :
        /\ op = "isGraphCyclic"
        /\ pc = "isGraphCyclic"
        /\ heap = <<AdjacencyGrid(n, kind)>>
        /\ self = NilMatrix
        /\ secondMatrix = NilMatrix
        /\ initialMatrix = NilMatrix
        /\ power = 0
        /\ argRows = 0 /\ argColumns = 0 /\ argEntries = <<>>
        /\ Idle

\* NewMatrix(rows, columns) and NewMatrix(rows, columns, entries)
InitNewMatrix ==
    \E r \in -1..MaxDim, c \in -1..MaxDim :
        /\ op = "NewMatrix"
        /\ pc = "NewMatrixCall"
        /\ argRows = r /\ argColumns = c
        /\ \/ argEntries = <<>> /\ heap = <<>>
           \/ \E gr \in 0..MaxDim, gc \in 0..MaxDim, last \in 0..MaxDim, s \in 0..MaxSeed :
                /\ argEntries = <<1>>
                /\ heap = <<EntryGrid(gr, gc, last, s)>>
        /\ self = NilMatrix
        /\ secondMatrix = NilMatrix
        /\ initialMatrix = NilMatrix
        /\ power = 0
        /\ Idle

\* a.Trace(), a of any shape
InitTrace ==
    \E r \in 1..MaxDim + 1, c \in 1..MaxDim + 1, s \in 0..MaxSeed :
        /\ op = "Trace"
        /\ pc = "TraceCall"
        /\ heap = <<OperandGrid(r, c, s)>>
        /\ self = Matrix(r, c, 1)
        /\ secondMatrix = NilMatrix
        /\ initialMatrix = NilMatrix
        /\ power = 0
        /\ argRows = 0 /\ argColumns = 0 /\ argEntries = <<>>
        /\ Idle

\* main, with the table read from the file
InitMain ==
    \E r \in 0..MaxDim, c \in 1..MaxDim + 1, kind \in SUBSET TablePatterns :
        /\ op = "main"
        /\ pc = "main"
        /\ heap = <<TableGrid(r, c, kind)>>
        /\ self = NilMatrix
        /\ secondMatrix = NilMatrix
        /\ initialMatrix = NilMatrix
        /\ power = 0
        /\ argRows = 0 /\ argColumns = 0 /\ argEntries = <<>>
        /\ Idle

Init == InitMultiply \/ InitExponentiate \/ InitIsGraphCyclic \/ InitNewMatrix
            \/ InitTrace \/ InitMain

\* isGraphCyclic's argument: the Matrix the client built over its grid, or
\* the Matrix NewMatrix returned to main (matrix.go line 41).
adjacencyMatrix ==
    IF op = "main" THEN Matrix(argRows, argColumns, argEntries[1])
    ELSE Matrix(Len(args[1]), Len(args[1][1]), 1)

(***************************************************************************)
(* Multiply: the calling goroutine                                         *)
(***************************************************************************)
Panic(what) ==
    /\ err' = what
    /\ pc' = "Panic"

\* Lines 71-73.
MultiplyCheck ==
    /\ pc = "Multiply"
    /\ IF Compatible(self, secondMatrix)
       THEN pc' = "NewMatrix" /\ err' = err
       ELSE Panic("incompatible dimensions")
    /\ mulCalls' = mulCalls + 1
    /\ UNCHANGED <<op, callVars, heap, args, mulVars, workerVars, expVars, result, verdict>>

\* Mutant of ResultMatrix: the result is built on the receiver's entries.
ResultMatrixShared(m, h) == Matrix(m.Rows, m.Columns, m.Entries)

\* Line 76, NewMatrix lines 30-35 and 41: the Matrix returned holds the newly
\* made entries, the next free place of the heap h.
ResultMatrix(m, h) == Matrix(m.Rows, m.Columns, Len(h) + 1)

\* Lines 76-80, NewMatrix lines 25-35.
MultiplyNewMatrix ==
    /\ pc = "NewMatrix"
    /\ IF NewMatrixRejects(self.Rows, self.Columns)
       THEN /\ Panic("dimension")
            /\ UNCHANGED <<heap, computedMatrix>>
       ELSE /\ heap' = Append(heap, ZeroGrid(self.Rows, self.Columns))
            /\ computedMatrix' = ResultMatrix(self, heap)
            /\ pc' = "MakeChannels"
            /\ err' = err
    /\ UNCHANGED <<op, callVars, args, self, secondMatrix, size, firstInputChannel,
                   secondInputChannel, finalOutputChannel, enc, sent, emitted,
                   workerVars, expVars, result, verdict, mulCalls>>

\* Lines 87-89.
MultiplyMakeChannels ==
    /\ pc = "MakeChannels"
    /\ size' = ChanSize(computedMatrix)
    /\ firstInputChannel' = MakeChan(size')
    /\ secondInputChannel' = MakeChan(size')
    /\ finalOutputChannel' = MakeChan(size')
    /\ pc' = "Go"
    /\ UNCHANGED <<op, callVars, err, heap, args, self, secondMatrix, computedMatrix, enc,
                   sent, emitted, workerVars, expVars, result, verdict, mulCalls>>

\* The encoder loop moves to the loop position st (a result of Scan).
EncoderAt(st) ==
    /\ enc' = [i |-> st.i, j |-> st.j, k |-> st.k]
    /\ CASE st.at = "send"  -> pc' = "SendFirst" /\ err' = err
         [] st.at = "end"   -> pc' = "CloseFirst" /\ err' = err
         [] st.at = "panic" -> Panic("index out of range")

\* Line 92, and the loop heads of lines 98-100 up to the first send.
MultiplyGo ==
    /\ pc = "Go"
    /\ wpc' = "ReceiveFirst"
    /\ sent' = 0
    /\ emitted' = <<>>
    /\ EncoderAt(Scan(Grid(self), Grid(secondMatrix), 0, 0, 0))
    /\ UNCHANGED <<op, callVars, heap, args, self, secondMatrix, computedMatrix, size,
                   firstInputChannel, secondInputChannel, finalOutputChannel,
                   x, y, firstChannelIsOpen, secondChannelIsOpen,
                   expVars, result, verdict, mulCalls>>

CanSend(ch) == ch.made /\ (ch.closed \/ Len(ch.buf) < ch.cap)

\* Line 101.
EncoderSendFirst ==
    /\ pc = "SendFirst"
    /\ CanSend(firstInputChannel)
    /\ IF firstInputChannel.closed
       THEN Panic("send on closed channel") /\ UNCHANGED firstInputChannel
       ELSE /\ firstInputChannel' =
                [firstInputChannel EXCEPT !.buf =
                    Append(@, FirstElement(Grid(self), enc))]
            /\ pc' = "SendSecond"
            /\ err' = err
    /\ UNCHANGED <<op, callVars, heap, args, self, secondMatrix, computedMatrix, size,
                   secondInputChannel, finalOutputChannel, enc, sent, emitted,
                   workerVars, expVars, result, verdict, mulCalls>>

\* Line 102, and the loop heads up to the next send.
EncoderSendSecond ==
    /\ pc = "SendSecond"
    /\ CanSend(secondInputChannel)
    /\ IF secondInputChannel.closed
       THEN Panic("send on closed channel") /\ UNCHANGED <<secondInputChannel, enc, sent>>
       ELSE /\ secondInputChannel' =
                [secondInputChannel EXCEPT !.buf =
                    Append(@, SecondElement(Grid(secondMatrix), enc))]
            /\ sent' = sent + 1
            /\ EncoderAt(Scan(Grid(self), Grid(secondMatrix), enc.i, enc.j, enc.k + 1))
    /\ UNCHANGED <<op, callVars, heap, args, self, secondMatrix, computedMatrix, size,
                   firstInputChannel, finalOutputChannel, emitted,
                   workerVars, expVars, result, verdict, mulCalls>>

\* Line 108.
MultiplyCloseFirst ==
    /\ pc = "CloseFirst"
    /\ IF firstInputChannel.closed
       THEN Panic("close of closed channel") /\ UNCHANGED firstInputChannel
       ELSE /\ firstInputChannel' = [firstInputChannel EXCEPT !.closed = TRUE]
            /\ pc' = "CloseSecond"
            /\ err' = err
    /\ UNCHANGED <<op, callVars, heap, args, self, secondMatrix, computedMatrix, size,
                   secondInputChannel, finalOutputChannel, enc, sent, emitted,
                   workerVars, expVars, result, verdict, mulCalls>>

\* Line 109.
MultiplyCloseSecond ==
    /\ pc = "CloseSecond"
    /\ IF secondInputChannel.closed
       THEN Panic("close of closed channel") /\ UNCHANGED secondInputChannel
       ELSE /\ secondInputChannel' = [secondInputChannel EXCEPT !.closed = TRUE]
            /\ pc' = "Assemble"
            /\ err' = err
    /\ UNCHANGED <<op, callVars, heap, args, self, secondMatrix, computedMatrix, size,
                   firstInputChannel, finalOutputChannel, enc, sent, emitted,
                   workerVars, expVars, result, verdict, mulCalls>>

\* Lines 112-114: one element received and added to its entry.
AssemblerReceive ==
    /\ pc = "Assemble"
    /\ Len(finalOutputChannel.buf) > 0
    /\ LET computedElement == Head(finalOutputChannel.buf) IN
        /\ finalOutputChannel' = [finalOutputChannel EXCEPT !.buf = Tail(@)]
        /\ IF InRange(Grid(computedMatrix), computedElement)
           THEN /\ heap' = [heap EXCEPT ![computedMatrix.Entries] =
                                Accumulate(@, computedElement)]
                /\ UNCHANGED <<pc, err>>
           ELSE /\ Panic("index out of range")
                /\ UNCHANGED heap
    /\ UNCHANGED <<op, callVars, args, self, secondMatrix, computedMatrix, size,
                   firstInputChannel, secondInputChannel, enc, sent, emitted,
                   workerVars, expVars, result, verdict, mulCalls>>

\* Mutant of RangeEnds: the range loop ends as soon as the channel is empty.
RangeEndsOnEmpty(ch) == Len(ch.buf) = 0

\* Line 112: a range loop over a channel ends when the channel is closed and
\* has no element left.
RangeEnds(ch) == ch.closed /\ Len(ch.buf) = 0

\* Lines 112 and 116: the output channel is closed and empty, the range loop
\* ends and Multiply returns computedMatrix to its caller (the client, or
\* line 55 of Exponentiate, which stores it and increments i).
MultiplyReturn ==
    /\ pc = "Assemble"
    /\ RangeEnds(finalOutputChannel)
    /\ IF op = "Multiply"
       THEN /\ result' = computedMatrix
            /\ pc' = "Done"
            /\ UNCHANGED <<currentMatrix, i>>
       ELSE /\ currentMatrix' = computedMatrix
            /\ i' = i + 1
            /\ pc' = "ExponentiateLoop"
            /\ UNCHANGED result
    /\ UNCHANGED <<op, callVars, err, heap, args, mulVars, workerVars, initialMatrix, power,
                   verdict, mulCalls>>

(***************************************************************************)
(* computeProducts: the goroutine started by Multiply                      *)
(***************************************************************************)
\* Mutant of CanReceive: a receive that does not wait on an empty open channel.
CanReceiveNoWait(ch) == ch.made

CanReceive(ch) == ch.made /\ (ch.closed \/ Len(ch.buf) > 0)

\* Line 126.
WorkerReceiveFirst ==
    /\ wpc = "ReceiveFirst"
    /\ err = "none"
    /\ CanReceive(firstInputChannel)
    /\ IF Len(firstInputChannel.buf) > 0
       THEN /\ x' = Head(firstInputChannel.buf)
            /\ firstChannelIsOpen' = TRUE
            /\ firstInputChannel' = [firstInputChannel EXCEPT !.buf = Tail(@)]
       ELSE /\ x' = ZeroElement
            /\ firstChannelIsOpen' = FALSE
            /\ UNCHANGED firstInputChannel
    /\ wpc' = "ReceiveSecond"
    /\ UNCHANGED <<op, callVars, pc, err, heap, args, self, secondMatrix, computedMatrix, size,
                   secondInputChannel, finalOutputChannel, enc, sent, emitted,
                   y, secondChannelIsOpen, expVars, result, verdict, mulCalls>>

\* Lines 127 and 129.
WorkerReceiveSecond ==
    /\ wpc = "ReceiveSecond"
    /\ err = "none"
    /\ CanReceive(secondInputChannel)
    /\ IF Len(secondInputChannel.buf) > 0
       THEN /\ y' = Head(secondInputChannel.buf)
            /\ secondChannelIsOpen' = TRUE
            /\ secondInputChannel' = [secondInputChannel EXCEPT !.buf = Tail(@)]
       ELSE /\ y' = ZeroElement
            /\ secondChannelIsOpen' = FALSE
            /\ UNCHANGED secondInputChannel
    /\ wpc' = IF firstChannelIsOpen /\ secondChannelIsOpen' THEN "Send" ELSE "Close"
    /\ UNCHANGED <<op, callVars, pc, err, heap, args, self, secondMatrix, computedMatrix, size,
                   firstInputChannel, finalOutputChannel, enc, sent, emitted,
                   x, firstChannelIsOpen, expVars, result, verdict, mulCalls>>

\* Line 131.
WorkerSend ==
    /\ wpc = "Send"
    /\ err = "none"
    /\ CanSend(finalOutputChannel)
    /\ IF finalOutputChannel.closed
       THEN /\ err' = "send on closed channel"
            /\ wpc' = "Panic"
            /\ UNCHANGED <<finalOutputChannel, emitted>>
       ELSE /\ finalOutputChannel' =
                [finalOutputChannel EXCEPT !.buf = Append(@, Product(x, y))]
            /\ emitted' = Append(emitted, Product(x, y))
            /\ wpc' = "ReceiveFirst"
            /\ err' = err
    /\ UNCHANGED <<op, callVars, pc, heap, args, self, secondMatrix, computedMatrix, size,
                   firstInputChannel, secondInputChannel, enc, sent,
                   x, y, firstChannelIsOpen, secondChannelIsOpen,
                   expVars, result, verdict, mulCalls>>

\* Lines 135-136.
WorkerClose ==
    /\ wpc = "Close"
    /\ err = "none"
    /\ IF finalOutputChannel.closed
       THEN /\ err' = "close of closed channel"
            /\ wpc' = "Panic"
            /\ UNCHANGED finalOutputChannel
       ELSE /\ finalOutputChannel' = [finalOutputChannel EXCEPT !.closed = TRUE]
            /\ wpc' = "Done"
            /\ err' = err
    /\ UNCHANGED <<op, callVars, pc, heap, args, self, secondMatrix, computedMatrix, size,
                   firstInputChannel, secondInputChannel, enc, sent, emitted,
                   x, y, firstChannelIsOpen, secondChannelIsOpen,
                   expVars, result, verdict, mulCalls>>

(***************************************************************************)
(* Exponentiate                                                            *)
(***************************************************************************)
\* Mutant of InvalidPower: zero is let through.
InvalidPowerNegative(p) == p < 0

\* Line 47.
InvalidPower(p) == p <= 0

\* Lines 47-51.
ExponentiateCheck ==
    /\ pc = "Exponentiate"
    /\ IF InvalidPower(power)
       THEN /\ Panic("invalid power")
            /\ UNCHANGED <<currentMatrix, i>>
       ELSE /\ currentMatrix' = initialMatrix
            /\ i' = 1
            /\ pc' = "ExponentiateLoop"
            /\ err' = err
    /\ UNCHANGED <<op, callVars, heap, args, mulVars, workerVars, initialMatrix, power,
                   result, verdict, mulCalls>>

\* Lines 54-55: the loop goes on and calls initialMatrix.Multiply(currentMatrix),
\* a new call with new locals.
ExponentiateMultiply ==
    /\ pc = "ExponentiateLoop"
    /\ LoopCond(i, power)
    /\ self' = initialMatrix
    /\ secondMatrix' = currentMatrix
    /\ computedMatrix' = NilMatrix
    /\ size' = 0
    /\ firstInputChannel' = NilChannel
    /\ secondInputChannel' = NilChannel
    /\ finalOutputChannel' = NilChannel
    /\ enc' = [i |-> 0, j |-> 0, k |-> 0]
    /\ sent' = 0
    /\ emitted' = <<>>
    /\ wpc' = "none"
    /\ x' = ZeroElement /\ y' = ZeroElement
    /\ firstChannelIsOpen' = FALSE /\ secondChannelIsOpen' = FALSE
    /\ pc' = "Multiply"
    /\ UNCHANGED <<op, callVars, err, heap, args, expVars, result, verdict, mulCalls>>

\* Lines 54 and 58: the loop ends and Exponentiate returns currentMatrix to
\* its caller (the client, or line 48 of isGraphCyclic).
ExponentiateReturn ==
    /\ pc = "ExponentiateLoop"
    /\ ~LoopCond(i, power)
    /\ result' = currentMatrix
    /\ pc' = IF op \in {"isGraphCyclic", "main"} THEN "Trace" ELSE "Done"
    /\ UNCHANGED <<op, callVars, err, heap, args, mulVars, workerVars, expVars, verdict, mulCalls>>

(***************************************************************************)
(* isGraphCyclic (main.go)                                                 *)
(***************************************************************************)
\* Line 48: the call adjacencyMatrix.Exponentiate(adjacencyMatrix.Rows).
IsGraphCyclicCall ==
    /\ pc = "isGraphCyclic"
    /\ initialMatrix' = adjacencyMatrix
    /\ power' = adjacencyMatrix.Rows
    /\ pc' = "Exponentiate"
    /\ UNCHANGED <<op, callVars, err, heap, args, mulVars, workerVars, currentMatrix, i,
                   result, verdict, mulCalls>>

\* Line 51.
IsGraphCyclicReturn ==
    /\ pc = "Trace"
    /\ verdict' = (Trace(Grid(result)) # 0)
    /\ pc' = "Done"
    /\ UNCHANGED <<op, callVars, err, heap, args, mulVars, workerVars, expVars, result, mulCalls>>

(***************************************************************************)
(* NewMatrix, called by a client                                           *)
(***************************************************************************)
\* Lines 23-42.
NewMatrixCall ==
    /\ pc = "NewMatrixCall"
    /\ pc' = "Done"
    /\ IF NewMatrixRejects(argRows, argColumns)
       THEN /\ newErr' = "dimension"
            /\ result' = NilMatrix
            /\ UNCHANGED heap
       ELSE IF Len(argEntries) = 0
       THEN /\ heap' = Append(heap, ZeroGrid(argRows, argColumns))
            /\ result' = Matrix(argRows, argColumns, Len(heap) + 1)
            /\ newErr' = "none"
       ELSE IF NewMatrixMismatch(heap[argEntries[1]], argRows, argColumns)
       THEN /\ newErr' = "mismatch"
            /\ result' = NilMatrix
            /\ UNCHANGED heap
       ELSE /\ result' = Matrix(argRows, argColumns, argEntries[1])
            /\ newErr' = "none"
            /\ UNCHANGED heap
    /\ UNCHANGED <<op, err, args, mulVars, workerVars, expVars, verdict, mulCalls,
                   argRows, argColumns, argEntries, traceValue, warned>>

(***************************************************************************)
(* Trace, called by a client                                               *)
(***************************************************************************)
\* Lines 143-157.
TraceCall ==
    /\ pc = "TraceCall"
    /\ traceValue' = Trace(Grid(self))
    /\ pc' = "Done"
    /\ UNCHANGED <<op, err, heap, args, mulVars, workerVars, expVars, result, verdict,
                   mulCalls, argRows, argColumns, argEntries, newErr, warned>>

(***************************************************************************)
(* main (main.go), from the table it has read and converted                *)
(***************************************************************************)
\* Lines 102-106: the dimensions, and the warning when they differ.
MainLoad ==
    /\ pc = "main"
    /\ argRows' = MainDims(heap[1]).rows
    /\ argColumns' = MainDims(heap[1]).columns
    /\ argEntries' = <<1>>
    /\ warned' = MainWarns(MainDims(heap[1]))
    /\ pc' = "Construct"
    /\ UNCHANGED <<op, err, heap, args, mulVars, workerVars, expVars, result, verdict,
                   mulCalls, newErr, traceValue>>

\* Lines 108-113 and NewMatrix lines 25-41: the Matrix is constructed over
\* the table; log.Fatal ends the process when NewMatrix returns an error.
MainNewMatrix ==
    /\ pc = "Construct"
    /\ IF NewMatrixRejects(argRows, argColumns)
       THEN newErr' = "dimension" /\ pc' = "Fatal"
       ELSE IF NewMatrixMismatch(heap[argEntries[1]], argRows, argColumns)
       THEN newErr' = "mismatch" /\ pc' = "Fatal"
       ELSE newErr' = "none" /\ pc' = "isGraphCyclic"
    /\ UNCHANGED <<op, err, heap, args, mulVars, workerVars, expVars, result, verdict,
                   mulCalls, argRows, argColumns, argEntries, traceValue, warned>>

(***************************************************************************)
(* The client, holding the returned Matrix, writes one of its entries      *)
(* (Entries is an exported field).                                         *)
(***************************************************************************)
ClientWrite ==
    /\ pc = "Done"
    /\ op \in {"Multiply", "Exponentiate"}
    /\ \E r \in 1..Len(Grid(result)) :
        \E c \in 1..Len(Grid(result)[r]) :
            heap' = [heap EXCEPT ![result.Entries][r][c] = @ + 1]
    /\ pc' = "Written"
    /\ UNCHANGED <<op, callVars, err, args, mulVars, workerVars, expVars, result, verdict, mulCalls>>

(***************************************************************************)
(* Specifications                                                          *)
(***************************************************************************)
Caller ==
    \/ MultiplyCheck
    \/ MultiplyNewMatrix
    \/ MultiplyMakeChannels
    \/ MultiplyGo
    \/ EncoderSendFirst
    \/ EncoderSendSecond
    \/ MultiplyCloseFirst
    \/ MultiplyCloseSecond
    \/ AssemblerReceive
    \/ MultiplyReturn
    \/ ExponentiateCheck
    \/ ExponentiateMultiply
    \/ ExponentiateReturn
    \/ IsGraphCyclicCall
    \/ IsGraphCyclicReturn

Worker ==
    \/ WorkerReceiveFirst
    \/ WorkerReceiveSecond
    \/ WorkerSend
    \/ WorkerClose

Main == MainLoad \/ MainNewMatrix

Next == Caller \/ Worker \/ ClientWrite \/ NewMatrixCall \/ TraceCall \/ Main

Spec == Init /\ [][Next]_vars

\* The Go scheduler runs every goroutine that can take a step.
FairSpec == Spec /\ WF_vars(Caller) /\ WF_vars(Worker)

\* One Multiply call by the client, and what follows it.
MultiplyCaller ==
    \/ MultiplyCheck
    \/ MultiplyNewMatrix
    \/ MultiplyMakeChannels
    \/ MultiplyGo
    \/ EncoderSendFirst
    \/ EncoderSendSecond
    \/ MultiplyCloseFirst
    \/ MultiplyCloseSecond
    \/ AssemblerReceive
    \/ MultiplyReturn

NextMultiply == MultiplyCaller \/ Worker \/ ClientWrite

FairMultiply ==
    /\ InitMultiply
    /\ [][NextMultiply]_vars
    /\ WF_vars(MultiplyCaller)
    /\ WF_vars(Worker)

(***************************************************************************)
(* Reference notions the properties are stated with                        *)
(***************************************************************************)
RECURSIVE SumTo(_, _)
\* f[1] + ... + f[n]
SumTo(f, n) == IF n = 0 THEN 0 ELSE f[n] + SumTo(f, n - 1)

\* The serial product of an n x n grid a with an n x n grid b.
SerialProduct(a, b) ==
    [r \in 1..Len(a) |->
        [c \in 1..Len(a) |->
            SumTo([j \in 1..Len(a) |-> a[r][j] * b[j][c]], Len(a))]]

RECURSIVE Pow(_, _)
\* a, left-multiplied by a, n - 1 times.
Pow(a, n) == IF n <= 1 THEN a ELSE SerialProduct(a, Pow(a, n - 1))

\* The storage of m is a Rows x Columns grid.
WellFormed(m) ==
    /\ Len(Grid(m)) = m.Rows
    /\ \A r \in 1..m.Rows : Len(Grid(m)[r]) = m.Columns

IsSquare(m) == m.Rows = m.Columns

\* Both operands of the current Multiply call are n x n.
SquareOperands ==
    /\ IsSquare(self) /\ IsSquare(secondMatrix)
    /\ self.Rows = secondMatrix.Rows
    /\ WellFormed(self) /\ WellFormed(secondMatrix)

IsIdentity(grid) ==
    \A r \in 1..Len(grid) :
        /\ Len(grid[r]) = Len(grid)
        /\ \A c \in 1..Len(grid) : grid[r][c] = (IF r = c THEN 1 ELSE 0)

\* Nodes (from 1) reached from the set s by one edge of the 0/1 grid.
Successors(grid, s) == {b \in 1..Len(grid) : \E a \in s : grid[a][b] # 0}

RECURSIVE ReachedWithin(_, _, _)
\* Nodes reached from the set s by 1..n edges.
ReachedWithin(grid, s, n) ==
    IF n = 0 THEN {}
    ELSE Successors(grid, s) \cup ReachedWithin(grid, Successors(grid, s), n - 1)

\* Some node lies on a closed walk of length <= number of nodes.
HasCycle(grid) == \E a \in 1..Len(grid) : a \in ReachedWithin(grid, {a}, Len(grid))

\* The element due for the m-th triple (i, j, k) of n x n operands a and b,
\* triples counted from 1 in the order i, then j, then k.
ExpectedProduct(a, b, m) ==
    LET n == Len(a)
        ti == (m - 1) \div (n * n)
        tj == ((m - 1) \div n) % n
        tk == (m - 1) % n
    IN  Element(ti, tk, a[ti + 1][tj + 1] * b[tj + 1][tk + 1])

\* Positions of the caller inside a Multiply call, after its compatibility check.
PastCheck == {"NewMatrix", "MakeChannels", "Go", "SendFirst", "SendSecond",
              "CloseFirst", "CloseSecond", "Assemble"}

\* The grid with every element of es added to its entry, each once.
RECURSIVE AccumulateAll(_, _)
AccumulateAll(grid, es) ==
    IF Len(es) = 0 THEN grid
    ELSE AccumulateAll(IF InRange(grid, Head(es)) THEN Accumulate(grid, Head(es))
                       ELSE grid, Tail(es))

\* A Multiply call has just returned computedMatrix to its caller: the
\* client, or the loop of Exponentiate.
MultiplyReturned ==
    \/ op = "Multiply" /\ pc = "Done"
    \/ pc = "ExponentiateLoop" /\ finalOutputChannel.made

\* The smaller of two numbers.
Min(a, b) == IF a <= b THEN a ELSE b

\* The sum of the entries of a rows x columns grid whose row index equals
\* their column index.
DiagonalSum(grid) ==
    LET n == Min(Len(grid), Len(grid[1]))
    IN  SumTo([d \in 1..n |-> grid[d][d]], n)

\* The storage the client passed in is as it was at the call.
OperandsUnchanged == \A ref \in 1..Len(args) : heap[ref] = args[ref]

(***************************************************************************)
(* Properties                                                              *)
(***************************************************************************)

\* C1: isGraphCyclic returns true if and only if the graph of the adjacency
\* matrix has a cycle (a closed walk of length <= n).
C1_CyclicIffCycle ==
    (op = "isGraphCyclic" /\ pc = "Done") => (verdict <=> HasCycle(args[1]))

\* C2: Multiply on square n x n operands returns the serial reference
\* product, whatever the interleaving of encoder, worker and assembler.
C2_MultiplyIsSerialProduct ==
    (op = "Multiply" /\ pc = "Done" /\ SquareOperands)
        => Grid(result) = SerialProduct(args[1], args[2])

C2_Witness ==
    /\ op = "Multiply" /\ pc = "Done" /\ SquareOperands
    /\ self.Rows = MaxDim
    /\ \E r \in 1..MaxDim : \E c \in 1..MaxDim : Grid(result)[r][c] # 0

\* C3: every Multiply call on square n x n operands runs to completion: the
\* input channels get closed, the worker closes the output channel and stops,
\* and Multiply returns.
C3_SquareMultiplyReturns ==
    (pc = "Multiply" /\ SquareOperands)
        ~> (/\ pc \in {"Done", "ExponentiateLoop"}
            /\ firstInputChannel.closed /\ secondInputChannel.closed
            /\ finalOutputChannel.closed
            /\ wpc = "Done"
            /\ err = "none")

C3_Witness ==
    /\ op = "Multiply" /\ pc = "Done" /\ SquareOperands
    /\ self.Rows = MaxDim
    /\ wpc = "Done" /\ finalOutputChannel.closed

\* C4: for operands that pass the compatibility check, the channels hold at
\* least every pair the encoder sends, so no send of the encoder loop finds
\* its channel full.
C4_EncoderNeverBlocks ==
    (pc \in PastCheck /\ finalOutputChannel.made) =>
        /\ sent <= size
        /\ pc = "SendFirst" => Len(firstInputChannel.buf) < size
        /\ pc = "SendSecond" => Len(secondInputChannel.buf) < size

\* C5: a Multiply call whose operands pass the compatibility check does not
\* fail, and returns a Rows x Columns matrix of the left operand's shape.
C5_CompatibleMultiplyCompletes ==
    (op = "Multiply" /\ self.Rows = secondMatrix.Columns)
        => /\ err = "none"
           /\ pc = "Done" => (result.Rows = self.Rows /\ result.Columns = self.Columns
                              /\ WellFormed(result))

\* C6: Multiply fails with the incompatible-dimensions error exactly when
\* self.Rows # other.Columns, before any channel is made, any worker started
\* or any element sent, and leaves the operands unchanged.
C6_IncompatibleDimensions ==
    /\ (err = "incompatible dimensions")
          <=> (mulCalls >= 1 /\ pc # "Multiply" /\ self.Rows # secondMatrix.Columns)
    /\ (err = "incompatible dimensions") =>
          /\ ~firstInputChannel.made /\ ~secondInputChannel.made
          /\ ~finalOutputChannel.made
          /\ wpc = "none"
          /\ sent = 0
          /\ computedMatrix = NilMatrix
          /\ OperandsUnchanged

C6_Witness ==
    /\ op = "Multiply" /\ err = "incompatible dimensions"
    /\ self.Rows # secondMatrix.Columns

\* C7: Exponentiate fails with the invalid-power error exactly when
\* power <= 0, and then without any Multiply call.
C7_InvalidPower ==
    (op = "Exponentiate" /\ pc # "Exponentiate") =>
        /\ (err = "invalid power") <=> (power <= 0)
        /\ power <= 0 => (mulCalls = 0 /\ OperandsUnchanged)

C7_Witness ==
    /\ op = "Exponentiate" /\ err = "invalid power" /\ power = 0 /\ mulCalls = 0

\* C8: on a square matrix, the running result after k loop rounds is the
\* original left-multiplied k times (so Exponentiate(k+1) is
\* A.Multiply(A.Exponentiate(k))); every Multiply call has the original as
\* left and the running result as right operand; power - 1 calls in all.
C8_ExponentiateChain ==
    (op = "Exponentiate" /\ IsSquare(initialMatrix)) =>
        /\ pc = "ExponentiateLoop" =>
              /\ Grid(currentMatrix) = Pow(args[1], i)
              /\ mulCalls = i - 1
        /\ pc \in PastCheck \cup {"Multiply"} =>
              /\ self = initialMatrix
              /\ secondMatrix = currentMatrix
              /\ Grid(currentMatrix) = Pow(args[1], i)
        /\ pc = "Done" =>
              /\ mulCalls = power - 1
              /\ Grid(result) = Pow(args[1], power)

C8_Witness ==
    /\ op = "Exponentiate" /\ pc = "Done" /\ IsSquare(initialMatrix)
    /\ initialMatrix.Rows = MaxDim
    /\ power = MaxPower /\ mulCalls = MaxPower - 1
    /\ Grid(result) # args[1]

\* C9: multiplying a matrix by an identity matrix that passes the
\* compatibility check returns a matrix entrywise equal to it.
C9_IdentityReturnsOperand ==
    (op = "Multiply" /\ IsIdentity(args[2]) /\ self.Rows = secondMatrix.Columns)
        => /\ err = "none"
           /\ pc = "Done" => Grid(result) = args[1]

\* C10: Exponentiate(1) returns a Matrix that shares nothing with the
\* receiver: a write to an entry of the result leaves the receiver as it was.
C10_PowerOneNotAliased ==
    (op = "Exponentiate" /\ power = 1 /\ pc = "Written")
        => Grid(initialMatrix) = args[1]

\* C11: NewMatrix returns a Matrix without error exactly when rows > 0,
\* columns > 0 and the entries, when given, have exactly `rows` rows of exactly
\* `columns` values each; the Matrix returned then has entries of exactly
\* that shape (all zero when none were given); otherwise the error is the
\* dimension error or the shape-mismatch error.
C11_NewMatrixShape ==
    (op = "NewMatrix" /\ pc = "Done") =>
        LET given == Len(argEntries) > 0
            fits == /\ Len(args[1]) = argRows
                    /\ \A r \in 1..Len(args[1]) : Len(args[1][r]) = argColumns
            positive == argRows > 0 /\ argColumns > 0
        IN  /\ (newErr = "none") <=> (positive /\ (given => fits))
            /\ (newErr = "none") =>
                  /\ result.Rows = argRows /\ result.Columns = argColumns
                  /\ WellFormed(result)
                  /\ ~given => Grid(result) = ZeroGrid(argRows, argColumns)
            /\ (newErr # "none") =>
                  newErr = (IF positive THEN "mismatch" ELSE "dimension")

\* C12: the m-th element the worker takes from the first input channel and
\* the m-th it takes from the second carry the same contraction index
\* (x.ColIndex = y.RowIndex): for the pair the worker multiplies, for the
\* element it holds while it waits for its partner, and for every pair
\* still queued.
C12_PairedByContraction ==
    LET held == IF wpc = "ReceiveSecond" /\ firstChannelIsOpen THEN 1 ELSE 0
        first == firstInputChannel.buf
        second == secondInputChannel.buf
    IN  /\ wpc = "Send" => x.ColIndex = y.RowIndex
        /\ (held = 1 /\ Len(second) > 0) => x.ColIndex = second[1].RowIndex
        /\ \A m \in 1..Len(first) :
              m + held <= Len(second) => first[m].ColIndex = second[m + held].RowIndex

C12_Witness ==
    /\ wpc = "Send"
    /\ x.ColIndex = 1 /\ y.RowIndex = 1 /\ y.ColIndex = 0
    /\ Len(firstInputChannel.buf) > 1 /\ Len(secondInputChannel.buf) > 1

\* C13: for square operands the worker emits exactly one element per pair
\* the encoder sent, in order, none dropped and none duplicated: for the
\* triple (i, j, k) the element (i, k, left[i][j] * right[j][k]).
C13_OneProductPerTriple ==
    (wpc # "none" /\ SquareOperands) =>
        LET n == self.Rows IN
        /\ Len(emitted) <= sent
        /\ \A m \in 1..Len(emitted) :
              emitted[m] = ExpectedProduct(Grid(self), Grid(secondMatrix), m)
        /\ wpc = "Done" => (Len(emitted) = n * n * n /\ sent = n * n * n)

C13_Witness ==
    /\ wpc = "Done" /\ SquareOperands
    /\ self.Rows = MaxDim
    /\ Len(emitted) = MaxDim * MaxDim * MaxDim
    /\ \E m \in 1..Len(emitted) : emitted[m].Value # 0

\* C14: the output channel is closed once, by the worker as it stops, only
\* after both input channels are closed and drained and every product is
\* sent on the output channel; nothing is sent on a closed channel and no
\* channel is closed twice; a call that returns has closed it.
C14_OutputClosedOnceAtEnd ==
    /\ err \notin {"send on closed channel", "close of closed channel"}
    /\ finalOutputChannel.closed <=> (wpc = "Done")
    /\ finalOutputChannel.closed =>
          /\ firstInputChannel.closed /\ secondInputChannel.closed
          /\ Len(firstInputChannel.buf) = 0 /\ Len(secondInputChannel.buf) = 0
          /\ ~firstChannelIsOpen /\ ~secondChannelIsOpen
          /\ Len(emitted) = sent
    /\ (op = "Multiply" /\ pc \in {"Done", "Written"}) => finalOutputChannel.closed

C14_Witness ==
    /\ finalOutputChannel.closed /\ wpc = "Done"
    /\ firstInputChannel.closed /\ secondInputChannel.closed
    /\ sent = MaxDim * MaxDim * MaxDim
    /\ Len(emitted) = sent

\* The number of pairs the encoder loops send from loop position (a, b, c) on,
\* up to their end or to the index secondMatrix.Entries does not have.
RECURSIVE PairsFrom(_, _, _, _, _)
PairsFrom(first, second, a, b, c) ==
    LET st == Scan(first, second, a, b, c)
    IN  IF st.at = "send" THEN 1 + PairsFrom(first, second, st.i, st.j, st.k + 1)
        ELSE 0

\* The channels of the running Multiply call are sized below the number of
\* pairs its encoder sends.
Undersized ==
    /\ op = "Multiply"
    /\ finalOutputChannel.made
    /\ size < PairsFrom(Grid(self), Grid(secondMatrix), 0, 0, 0)

\* C15: when the channels are sized below the number of pairs the encoder
\* sends, Multiply deadlocks, the encoder and the worker both waiting for
\* room: such a call never returns to its caller.
C15_UndersizedNeverReturns ==
    Undersized => pc \notin {"Done", "Written"}

\* C16: Multiply returns only after the output channel is closed and every
\* element the worker emitted (one per pair sent) has been added to its entry
\* of the result exactly once; the caller holds no result before that.
C16_ReturnsAfterAllAccumulated ==
    /\ MultiplyReturned =>
        /\ finalOutputChannel.closed
        /\ Len(finalOutputChannel.buf) = 0
        /\ wpc = "Done"
        /\ Len(emitted) = sent
        /\ Grid(computedMatrix) =
              AccumulateAll(ZeroGrid(self.Rows, self.Columns), emitted)
        /\ (IF op = "Multiply" THEN result ELSE currentMatrix) = computedMatrix
    /\ (op = "Multiply" /\ pc \in PastCheck) => result = NilMatrix

C16_Witness ==
    /\ MultiplyReturned
    /\ Len(emitted) >= 8
    /\ \E r \in 1..Len(Grid(computedMatrix)) :
         \E c \in 1..Len(Grid(computedMatrix)[r]) : Grid(computedMatrix)[r][c] > 1

\* The calls C17 is about: Multiply, alone or inside Exponentiate, before the
\* client touches what it got back.
InMultiplyOrExponentiate ==
    op \in {"Multiply", "Exponentiate", "isGraphCyclic"} /\ pc # "Written"

\* The result of the running Multiply call shares no entries with an operand.
ResultIsFresh ==
    (pc \in PastCheck \ {"NewMatrix"}) =>
        /\ computedMatrix.Entries \notin {self.Entries, secondMatrix.Entries}
        /\ computedMatrix.Entries > Len(args)

\* A step that changes stored entries is the allocation of the result or an
\* accumulation by the assembler loop into the result, and nothing else.
WritesOnlyResult ==
    (InMultiplyOrExponentiate /\ pc # "Done" /\ heap' # heap) =>
        \/ /\ pc = "NewMatrix"
           /\ heap' = Append(heap, ZeroGrid(self.Rows, self.Columns))
        \/ /\ pc = "Assemble"
           /\ Len(heap') = Len(heap)
           /\ \A ref \in 1..Len(heap) :
                ref # computedMatrix.Entries => heap'[ref] = heap[ref]
           /\ heap'[self.Entries] = heap[self.Entries]
           /\ heap'[secondMatrix.Entries] = heap[secondMatrix.Entries]

OperandsKept == InMultiplyOrExponentiate => (OperandsUnchanged /\ ResultIsFresh)

\* C17: Multiply and Exponentiate leave the entries of their operands as they
\* were; the only entries written during a Multiply call are those of the
\* newly allocated result, written by the assembler loop only, and the result
\* shares no entries with either operand.
C17_OperandsUnchanged ==
    /\ []OperandsKept
    /\ [][WritesOnlyResult]_vars

C17_Witness ==
    /\ op = "Exponentiate"
    /\ power >= 2
    /\ pc = "Done"
    /\ mulCalls >= 2
    /\ OperandsUnchanged
    /\ Grid(result) # args[1]
    /\ \E r \in 1..Len(args[1]) : \E c \in 1..Len(args[1][r]) : args[1][r][c] > 0

\* isGraphCyclic was called on the adjacency matrix of a directed acyclic graph.
OnDag == op = "isGraphCyclic" /\ ~HasCycle(args[1])

\* C18: for the square 0/1 adjacency matrix A of a directed acyclic graph on
\* n nodes, the matrix Exponentiate(n) hands back is A^n with every diagonal
\* entry zero, and isGraphCyclic returns false.
C18_DagIsNotCyclic ==
    OnDag =>
        /\ err = "none"
        /\ (pc \in {"Trace", "Done"}) =>
              /\ Grid(result) = Pow(args[1], Len(args[1]))
              /\ \A d \in 1..Len(Grid(result)) : Grid(result)[d][d] = 0
        /\ (pc = "Done") => (verdict = FALSE)

C18_Witness ==
    /\ OnDag
    /\ pc = "Done"
    /\ Len(args[1]) = MaxNodes
    /\ mulCalls = MaxNodes - 1
    /\ args[1][1][2] = 1
    /\ args[1][2][3] = 1
    /\ verdict = FALSE

\* C19: Trace returns the sum of the entries whose row index equals their
\* column index, for a matrix of any shape (the min(rows, columns) diagonal
\* positions of a non-square one), and leaves the matrix as it was.
C19_TraceIsDiagonalSum ==
    (op = "Trace" /\ pc = "Done") =>
        /\ traceValue = DiagonalSum(args[1])
        /\ heap = args

C19_Witness ==
    /\ op = "Trace"
    /\ pc = "Done"
    /\ self.Rows # self.Columns
    /\ Min(self.Rows, self.Columns) >= 2
    /\ traceValue # 0
    /\ traceValue # args[1][1][1]

\* main has loaded a table whose records do not have as many fields as there
\* are records.
NonSquareTable ==
    op = "main" /\ Len(args[1]) > 0 /\ Len(args[1][1]) # Len(args[1])

\* C20: when the loaded table is not square, main prints the warning, hands
\* the table as it is to NewMatrix and isGraphCyclic, and does not end
\* fatally.
C20_NonSquareWarnedNotFatal ==
    (NonSquareTable /\ pc \notin {"main"}) =>
        /\ warned
        /\ pc # "Fatal"
        /\ heap[1] = args[1]

====
